---------------------------- MODULE Spec2Model ----------------------------
(***************************************************************************)
(* Model of package winfileask (src/winfileask.go): the marshaling layer   *)
(* in front of the Windows GetOpenFileNameW / GetSaveFileNameW dialogs.    *)
(*                                                                         *)
(* A Go string is modelled as the sequence of its runes, a []uint16 as the *)
(* sequence of its 16-bit units, a *uint16 as a record holding the memory  *)
(* it points to (or nil).  The output buffer, 1024 units long, is held     *)
(* run-length encoded: [len, head, fill] is the slice of len units that    *)
(* starts with head and holds fill in every later unit.                    *)
(***************************************************************************)
EXTENDS Integers, Sequences, FiniteSets, TLC

VARIABLES
    ptrSize,   \* size in bytes of a pointer in the build (GOARCH)
    heap,      \* output buffers allocated by make([]uint16, 1024)
    pc,        \* per thread: position inside GetOpenFileName/GetSaveFileName
    proc,      \* per thread: the function being executed
    args,      \* per thread: parentHWND, title, filter, initialDir
    ofn,       \* per thread: the *TagOFNA local
    buf,       \* per thread: the buf local (address in heap)
    ret,       \* per thread: first result of proc.Call
    result,    \* per thread: the (string, bool, error) returned
    osCalls,   \* per thread: calls of the OS entry point in this invocation
    ff,        \* receiver of a direct FileFilter.ToRaw call
    raw        \* result of that call

vars == <<ptrSize, heap, pc, proc, args, ofn, buf, ret, result, osCalls, ff, raw>>

dialogVars == <<ptrSize, heap, pc, proc, args, ofn, buf, ret, result, osCalls>>

-----------------------------------------------------------------------------
(* Bounds of the model *)

MaxLen == 1        \* longest name / pattern, in runes
MaxFilters == 2    \* longest filter list
MaxOsWrite == 2    \* longest run of units the OS chooses freely
NumThreads == 2    \* calling threads

-----------------------------------------------------------------------------
(* Runes and UTF-16 units *)

Pipe == 124        \* '|'
Space == 32        \* ' '

RECURSIVE SeqsUpTo(_, _)
SeqsUpTo(S, n) ==
    IF n = 0 THEN {<<>>}
    ELSE LET shorter == SeqsUpTo(S, n - 1)
         IN  shorter \cup {Append(s, x) : s \in {t \in shorter : Len(t) = n - 1}, x \in S}

\* runes of the names: NUL, 'a', '|'
NameRunes == {0, 97, 124}

\* runes of the patterns: ' ', '*'
PatternRunes == {32, 42}

\* A string is the sequence of the items a range loop over it yields: the
\* code point of each well-formed UTF-8 sequence, and 1114112 + b for a byte b
\* that belongs to none.
IsInvalidByte(r) == r > 1114111

\* entries outside these alphabets: U+1F600 (a surrogate pair in UTF-16),
\* a pattern with '|', a pattern with NUL, the name "\xff" (not UTF-8) and
\* the name U+FFFD
SpecialFilters == {
    [Name |-> <<128512>>, Pattern |-> <<128512>>],
    [Name |-> <<97>>, Pattern |-> <<42, 124, 42>>],
    [Name |-> <<97>>, Pattern |-> <<0>>],
    [Name |-> <<1114112 + 255>>, Pattern |-> <<42>>],
    [Name |-> <<65533>>, Pattern |-> <<42>>] }

Filters ==
    [Name : SeqsUpTo(NameRunes, MaxLen), Pattern : SeqsUpTo(PatternRunes, MaxLen)]
        \cup SpecialFilters

FileFilters == UNION {[1..n -> Filters] : n \in 0..MaxFilters}

NoErr == "nil"
ErrPatternSpace == "pattern contains a space"
EINVAL == "EINVAL"

NilPtr == [nil |-> TRUE, mem |-> <<>>]

AddrOfFirst_Second(s) == [nil |-> FALSE, mem |-> Tail(s)]

\* &s[0]
AddrOfFirst(s) == [nil |-> FALSE, mem |-> s]

\* strings.ContainsRune
ContainsRune(s, r) == \E i \in 1..Len(s) : s[i] = r

\* utf16.Encode of one item of the string: a byte that is not UTF-8 is read
\* as U+FFFD
EncodeRune(r) ==
    IF IsInvalidByte(r) THEN <<65533>>
    ELSE IF r >= 65536
    THEN <<55296 + ((r - 65536) \div 1024), 56320 + ((r - 65536) % 1024)>>
    ELSE <<r>>

RECURSIVE EncodeRunes(_)
EncodeRunes(s) ==
    IF s = <<>> THEN <<>> ELSE EncodeRune(Head(s)) \o EncodeRunes(Tail(s))

\* syscall.UTF16FromString: EINVAL on an embedded NUL, else the UTF-16
\* encoding with a terminating NUL added
UTF16FromString(s) ==
    IF ContainsRune(s, 0)
    THEN [buf |-> <<>>, err |-> EINVAL]
    ELSE [buf |-> EncodeRunes(s) \o <<0>>, err |-> NoErr]

\* syscall.UTF16PtrFromString
UTF16PtrFromString(s) ==
    LET a == UTF16FromString(s)
    IN  IF a.err # NoErr THEN [ptr |-> NilPtr, err |-> a.err]
        ELSE [ptr |-> AddrOfFirst(a.buf), err |-> NoErr]

-----------------------------------------------------------------------------
(* FileFilter.ToRaw *)

PatternInvalid_Never(p) == FALSE

\* the check of one pattern
PatternInvalid(p) == ContainsRune(p, Space)

\* the range loop: the builder after entries i.., or the error it returns
RECURSIVE WriteFilters(_, _, _)
WriteFilters(list, i, sb) ==
    IF i > Len(list) THEN [sb |-> sb, err |-> NoErr]
    ELSE LET f == list[i]
             sb1 == sb \o f.Name \o <<Pipe>>
         IN  IF PatternInvalid(f.Pattern)
             THEN [sb |-> sb1, err |-> ErrPatternSpace]
             ELSE WriteFilters(list, i + 1, sb1 \o f.Pattern \o <<Pipe>>)

ReplacePipes_SkipFirst(p) == [i \in 1..Len(p) |-> IF p[i] = Pipe /\ i > 1 THEN 0 ELSE p[i]]

\* the final loop: every '|' unit becomes 0
ReplacePipes(p) == [i \in 1..Len(p) |-> IF p[i] = Pipe THEN 0 ELSE p[i]]

FinalSeparator_None == <<>>

\* the separator written after the loop
FinalSeparator == <<Pipe>>

ToRaw(list) ==
    LET w == WriteFilters(list, 1, <<>>)
    IN  IF w.err # NoErr THEN [ptr |-> NilPtr, err |-> w.err]
        ELSE LET u == UTF16FromString(w.sb \o FinalSeparator)
             IN  IF u.err # NoErr THEN [ptr |-> NilPtr, err |-> u.err]
                 ELSE [ptr |-> AddrOfFirst(ReplacePipes(u.buf)), err |-> NoErr]

NotRun == [ptr |-> NilPtr, err |-> "not run"]

-----------------------------------------------------------------------------
(* Flags *)

FileMustExist == 4096    \* 0x00001000
HideReadOnly == 4        \* 0x00000004
PathMustExist == 2048    \* 0x00000800

\* the | operator on uint32
RECURSIVE BitOr(_, _)
BitOr(a, b) ==
    IF a = 0 THEN b
    ELSE IF b = 0 THEN a
    ELSE (IF a % 2 = 1 \/ b % 2 = 1 THEN 1 ELSE 0) + 2 * BitOr(a \div 2, b \div 2)

-----------------------------------------------------------------------------
(* TagOFNA *)

\* the fields of the struct in declaration order, with their Go types
TagOFNAFields == <<
    [name |-> "LStructSize",       type |-> "uint32"],
    [name |-> "HwndOwner",         type |-> "ptr"],
    [name |-> "HInstance",         type |-> "ptr"],
    [name |-> "LpstrFilter",       type |-> "ptr"],
    [name |-> "LpstrCustomFilter", type |-> "ptr"],
    [name |-> "NMaxCustFilter",    type |-> "uint32"],
    [name |-> "NFilterIndex",      type |-> "uint32"],
    [name |-> "LpstrFile",         type |-> "ptr"],
    [name |-> "NMaxFile",          type |-> "uint32"],
    [name |-> "LpstrFileTitle",    type |-> "ptr"],
    [name |-> "NMaxFileTitle",     type |-> "uint32"],
    [name |-> "LpstrInitialDir",   type |-> "ptr"],
    [name |-> "LpstrTitle",        type |-> "ptr"],
    [name |-> "Flags",             type |-> "uint32"],
    [name |-> "NFileOffset",       type |-> "uint16"],
    [name |-> "NFileExtension",    type |-> "uint16"],
    [name |-> "LpstrDefExt",       type |-> "ptr"],
    [name |-> "LCustData",         type |-> "ptr"],
    [name |-> "LpfnHook",          type |-> "ptr"],
    [name |-> "LpTemplateName",    type |-> "ptr"],
    [name |-> "PvReserved",        type |-> "ptr"],
    [name |-> "DwReserved",        type |-> "uint32"],
    [name |-> "FlagsEx",           type |-> "uint32"] >>

\* size (= alignment) of a field type when pointers take ps bytes
TypeSize(type, ps) ==
    CASE type = "uint32" -> 4
      [] type = "uint16" -> 2
      [] OTHER -> ps

AlignUp(off, al) == ((off + al - 1) \div al) * al

RECURSIVE LayoutEnd(_, _, _)
LayoutEnd(i, off, ps) ==
    IF i > Len(TagOFNAFields) THEN AlignUp(off, ps)
    ELSE LET sz == TypeSize(TagOFNAFields[i].type, ps)
         IN  LayoutEnd(i + 1, AlignUp(off, sz) + sz, ps)

\* unsafe.Sizeof(ofn)
SizeofTagOFNA(ps) == LayoutEnd(1, 0, ps)

\* var ofn TagOFNA
ZeroTagOFNA == [
    LStructSize |-> 0, HwndOwner |-> 0, HInstance |-> 0,
    LpstrFilter |-> NilPtr, LpstrCustomFilter |-> NilPtr,
    NMaxCustFilter |-> 0, NFilterIndex |-> 0,
    LpstrFile |-> 0, NMaxFile |-> 0,
    LpstrFileTitle |-> NilPtr, NMaxFileTitle |-> 0,
    LpstrInitialDir |-> NilPtr, LpstrTitle |-> NilPtr,
    Flags |-> 0, NFileOffset |-> 0, NFileExtension |-> 0,
    LpstrDefExt |-> NilPtr, LCustData |-> 0, LpfnHook |-> 0,
    LpTemplateName |-> NilPtr, PvReserved |-> 0, DwReserved |-> 0,
    FlagsEx |-> 0 ]

\* a nil *TagOFNA
NilOFN == [nil |-> TRUE, val |-> ZeroTagOFNA]

NewTagOFNA_NoDirCheck(parentHWND, title, filter, initialDir, flags, ps) ==
    LET lStructSize == SizeofTagOFNA(ps)
        t == UTF16PtrFromString(title)
    IN  IF t.err # NoErr THEN [ofn |-> NilOFN, err |-> t.err]
        ELSE LET f == ToRaw(filter)
             IN  IF f.err # NoErr THEN [ofn |-> NilOFN, err |-> f.err]
                 ELSE LET d == UTF16PtrFromString(initialDir)
                      IN  IF FALSE THEN [ofn |-> NilOFN, err |-> d.err]
                          ELSE [ofn |-> [nil |-> FALSE,
                                         val |-> [ZeroTagOFNA EXCEPT
                                             !.LStructSize = lStructSize,
                                             !.HwndOwner = parentHWND,
                                             !.LpstrFilter = f.ptr,
                                             !.NFilterIndex = 0,
                                             !.LpstrFile = 0,
                                             !.NMaxFile = 0,
                                             !.LpstrInitialDir = d.ptr,
                                             !.LpstrTitle = t.ptr,
                                             !.Flags = flags,
                                             !.NFileOffset = 0,
                                             !.NFileExtension = 0]],
                                err |-> NoErr]

NewTagOFNA_FilterFirst(parentHWND, title, filter, initialDir, flags, ps) ==
    LET lStructSize == SizeofTagOFNA(ps)
        f == ToRaw(filter)
    IN  IF f.err # NoErr THEN [ofn |-> NilOFN, err |-> f.err]
        ELSE LET t == UTF16PtrFromString(title)
             IN  IF t.err # NoErr THEN [ofn |-> NilOFN, err |-> t.err]
                 ELSE LET d == UTF16PtrFromString(initialDir)
                      IN  IF d.err # NoErr THEN [ofn |-> NilOFN, err |-> d.err]
                          ELSE [ofn |-> [nil |-> FALSE,
                                         val |-> [ZeroTagOFNA EXCEPT
                                             !.LStructSize = lStructSize,
                                             !.HwndOwner = parentHWND,
                                             !.LpstrFilter = f.ptr,
                                             !.NFilterIndex = 0,
                                             !.LpstrFile = 0,
                                             !.NMaxFile = 0,
                                             !.LpstrInitialDir = d.ptr,
                                             !.LpstrTitle = t.ptr,
                                             !.Flags = flags,
                                             !.NFileOffset = 0,
                                             !.NFileExtension = 0]],
                                err |-> NoErr]

NewTagOFNA(parentHWND, title, filter, initialDir, flags, ps) ==
    LET lStructSize == SizeofTagOFNA(ps)
        t == UTF16PtrFromString(title)
    IN  IF t.err # NoErr THEN [ofn |-> NilOFN, err |-> t.err]
        ELSE LET f == ToRaw(filter)
             IN  IF f.err # NoErr THEN [ofn |-> NilOFN, err |-> f.err]
                 ELSE LET d == UTF16PtrFromString(initialDir)
                      IN  IF d.err # NoErr THEN [ofn |-> NilOFN, err |-> d.err]
                          ELSE [ofn |-> [nil |-> FALSE,
                                         val |-> [ZeroTagOFNA EXCEPT
                                             !.LStructSize = lStructSize,
                                             !.HwndOwner = parentHWND,
                                             !.LpstrFilter = f.ptr,
                                             !.NFilterIndex = 0,
                                             !.LpstrFile = 0,
                                             !.NMaxFile = 0,
                                             !.LpstrInitialDir = d.ptr,
                                             !.LpstrTitle = t.ptr,
                                             !.Flags = flags,
                                             !.NFileOffset = 0,
                                             !.NFileExtension = 0]],
                                err |-> NoErr]

-----------------------------------------------------------------------------
(* Decoding of the output buffer *)

IsHighSurrogate(u) == u >= 55296 /\ u < 56320
IsLowSurrogate(u) == u >= 56320 /\ u < 57344

\* utf16.Decode: a high surrogate followed by a low one is one rune, any
\* other surrogate is U+FFFD, every other unit is itself.  A low surrogate
\* is the second half of a pair exactly when the unit before it is a high
\* surrogate, since the loop never consumes a high surrogate as a second
\* half.
UTF16Decode(s) ==
    LET n == Len(s)
        IsSecondHalf(i) == i > 1 /\ IsLowSurrogate(s[i]) /\ IsHighSurrogate(s[i - 1])
        Starts == SelectSeq([i \in 1..n |-> i], LAMBDA i : ~IsSecondHalf(i))
        RuneAt(i) ==
            IF IsHighSurrogate(s[i]) /\ i < n /\ IsLowSurrogate(s[i + 1])
            THEN 65536 + (s[i] - 55296) * 1024 + (s[i + 1] - 56320)
            ELSE IF IsHighSurrogate(s[i]) \/ IsLowSurrogate(s[i]) THEN 65533
            ELSE s[i]
    IN  [k \in 1..Len(Starts) |-> RuneAt(Starts[k])]

\* make([]uint16, n)
MakeUint16(n) == [len |-> n, head |-> <<>>, fill |-> 0]

\* b[i], counting from 1
At(b, i) == IF i <= Len(b.head) THEN b.head[i] ELSE b.fill

\* b[0:k]
Units(b, k) == [i \in 1..k |-> At(b, i)]

\* the same slice with the shortest head
RECURSIVE Canon(_)
Canon(b) ==
    IF b.head # <<>> /\ b.head[Len(b.head)] = b.fill
    THEN Canon([b EXCEPT !.head = SubSeq(b.head, 1, Len(b.head) - 1)])
    ELSE b

\* syscall.UTF16ToString: cut b at its first 0 unit, then decode
UTF16ToString(b) ==
    IF \E i \in 1..b.len : At(b, i) = 0
    THEN LET z == CHOOSE i \in 1..b.len : At(b, i) = 0 /\ \A j \in 1..(i - 1) : At(b, j) # 0
         IN  UTF16Decode(Units(b, z - 1))
    ELSE UTF16Decode(Units(b, b.len))

-----------------------------------------------------------------------------
(* State of the callers *)

Threads == 1..NumThreads

\* addresses make() can return; a free address holds NoBuffer
Addrs == 1..NumThreads

NoBuffer == [len |-> 0, head |-> <<>>, fill |-> 0]

Make_Shared(mem) == 1

\* make([]uint16, n) returns memory that is not in use
Make(mem) == CHOOSE a \in Addrs : mem[a] = NoBuffer /\ \A b \in Addrs : mem[b] = NoBuffer => a <= b

NoArgs == [parentHWND |-> 0, title |-> <<>>, filter |-> <<>>, initialDir |-> <<>>]

NoResult == [path |-> <<>>, found |-> FALSE, err |-> "no result"]

\* owner window handles (NULL and a window)
Hwnds == {0, 7}

\* titles and initial directories: "a" + U+1F600, and a string with NUL
Texts == {<<97, 128512>>, <<97, 0>>}

\* filter lists given to the dialogs
DialogFilters == {
    <<>>,
    <<[Name |-> <<97, 124, 97>>, Pattern |-> <<42>>], [Name |-> <<128512>>, Pattern |-> <<>>]>>,
    <<[Name |-> <<97>>, Pattern |-> <<42>>], [Name |-> <<97>>, Pattern |-> <<42, 32, 42>>]>>,
    <<[Name |-> <<0>>, Pattern |-> <<42>>]>> }

\* values of the units the OS writes: NUL, 'a', and the two halves of U+1F600
OsUnits == {0, 97, 55357, 56832}

OsWrites == SeqsUpTo(OsUnits, MaxOsWrite)

\* what the OS leaves in the units after those it chose freely
OsFills == {0, 97}

\* return codes of the OS entry points
OsRets == {0, 1}

InitDialog ==
    /\ ptrSize \in {4, 8}
    /\ heap = [a \in Addrs |-> NoBuffer]
    /\ pc = [t \in Threads |-> "idle"]
    /\ proc = [t \in Threads |-> "none"]
    /\ args = [t \in Threads |-> NoArgs]
    /\ ofn = [t \in Threads |-> NilOFN]
    /\ buf = [t \in Threads |-> 0]
    /\ ret = [t \in Threads |-> 0]
    /\ result = [t \in Threads |-> NoResult]
    /\ osCalls = [t \in Threads |-> 0]

Init ==
    /\ InitDialog
    /\ ff = <<>>
    /\ raw = NotRun

\* the callers of Spec are serialised: one invocation at a time
Serial(t) == \A u \in Threads \ {t} : pc[u] = "idle"

-----------------------------------------------------------------------------
(* GetOpenFileName *)

\* flags := FileMustExist | HideReadOnly | PathMustExist
OpenFlags == BitOr(BitOr(FileMustExist, HideReadOnly), PathMustExist)

OpenWireBuffer_NoMax(o, a) == [o EXCEPT !.val.LpstrFile = a]

\* ofn.LpstrFile = &buf[0]; ofn.NMaxFile = 1024
OpenWireBuffer(o, a) == [o EXCEPT !.val.LpstrFile = a, !.val.NMaxFile = 1024]

OpenResult_CancelIsError(r, b) ==
    IF r = 0
    THEN [path |-> <<>>, found |-> FALSE, err |-> EINVAL]
    ELSE [path |-> UTF16ToString(b), found |-> TRUE, err |-> NoErr]

\* the values returned once the OS call gave r and left b in buf
OpenResult(r, b) ==
    IF r = 0
    THEN [path |-> <<>>, found |-> FALSE, err |-> NoErr]
    ELSE [path |-> UTF16ToString(b), found |-> TRUE, err |-> NoErr]

\* up to and including the call of procGetOpenFileName
GetOpenFileName(t, parentHWND, title, filter, initialDir) ==
    /\ pc[t] = "idle"
    /\ proc' = [proc EXCEPT ![t] = "GetOpenFileName"]
    /\ args' = [args EXCEPT ![t] = [parentHWND |-> parentHWND, title |-> title,
                                    filter |-> filter, initialDir |-> initialDir]]
    /\ LET r == NewTagOFNA(parentHWND, title, filter, initialDir, OpenFlags, ptrSize)
       IN  IF r.err # NoErr
           THEN /\ result' = [result EXCEPT ![t] = [path |-> <<>>, found |-> FALSE, err |-> r.err]]
                /\ ofn' = [ofn EXCEPT ![t] = r.ofn]
                /\ pc' = [pc EXCEPT ![t] = "done"]
                /\ UNCHANGED <<heap, buf, osCalls>>
           ELSE LET a == Make(heap)
                IN
                /\ heap' = [heap EXCEPT ![a] = MakeUint16(1024)]
                /\ buf' = [buf EXCEPT ![t] = a]
                /\ ofn' = [ofn EXCEPT ![t] = OpenWireBuffer(r.ofn, a)]
                /\ osCalls' = [osCalls EXCEPT ![t] = @ + 1]
                /\ pc' = [pc EXCEPT ![t] = "inOS"]
                /\ UNCHANGED result
    /\ UNCHANGED <<ptrSize, ret, ff, raw>>

\* b after its first n units were overwritten with w followed by fill
Overwritten(b, n, w, fill) ==
    LET unit(i) == IF i > n THEN At(b, i) ELSE IF i <= Len(w) THEN w[i] ELSE fill
        m == IF n >= b.len
             THEN (IF Len(w) < b.len THEN Len(w) ELSE b.len)
             ELSE (IF n > Len(b.head) THEN n ELSE Len(b.head))
    IN  Canon([len |-> b.len,
               head |-> [i \in 1..m |-> unit(i)],
               fill |-> IF n >= b.len THEN fill ELSE b.fill])

\* the buffer the OS leaves behind: at most NMaxFile units of the memory at
\* LpstrFile are written, w first and fill in the rest
OsOutput(mem, o, w, fill) ==
    IF o.LpstrFile = 0 \/ o.NMaxFile = 0 THEN mem
    ELSE [mem EXCEPT ![o.LpstrFile] = Overwritten(@, o.NMaxFile, w, fill)]

\* GetOpenFileNameW of comdlg32.dll returns
GetOpenFileNameW(t, r, w, fill) ==
    /\ pc[t] = "inOS"
    /\ proc[t] = "GetOpenFileName"
    /\ heap' = OsOutput(heap, ofn[t].val, w, fill)
    /\ ret' = [ret EXCEPT ![t] = r]
    /\ pc' = [pc EXCEPT ![t] = "back"]
    /\ UNCHANGED <<ptrSize, proc, args, ofn, buf, result, osCalls, ff, raw>>

GetOpenFileNameReturn_Retry(t) ==
    /\ pc[t] = "back"
    /\ proc[t] = "GetOpenFileName"
    /\ IF ret[t] = 0 /\ osCalls[t] < 2
       THEN /\ osCalls' = [osCalls EXCEPT ![t] = @ + 1]
            /\ pc' = [pc EXCEPT ![t] = "inOS"]
            /\ UNCHANGED result
       ELSE /\ result' = [result EXCEPT ![t] = OpenResult(ret[t], heap[buf[t]])]
            /\ pc' = [pc EXCEPT ![t] = "done"]
            /\ UNCHANGED osCalls
    /\ UNCHANGED <<ptrSize, heap, proc, args, ofn, buf, ret, ff, raw>>

\* from the test of ret to the return
GetOpenFileNameReturn(t) ==
    /\ pc[t] = "back"
    /\ proc[t] = "GetOpenFileName"
    /\ result' = [result EXCEPT ![t] = OpenResult(ret[t], heap[buf[t]])]
    /\ pc' = [pc EXCEPT ![t] = "done"]
    /\ UNCHANGED <<ptrSize, heap, proc, args, ofn, buf, ret, osCalls, ff, raw>>

-----------------------------------------------------------------------------
(* GetSaveFileName *)

SaveFlags_AsOpen == OpenFlags

\* flags := HideReadOnly | PathMustExist
SaveFlags == BitOr(HideReadOnly, PathMustExist)

\* ofn.LpstrFile = &buf[0]; ofn.NMaxFile = 1024
SaveWireBuffer(o, a) == [o EXCEPT !.val.LpstrFile = a, !.val.NMaxFile = 1024]

SaveResult_NoStop(r, b) ==
    IF r = 0
    THEN [path |-> <<>>, found |-> FALSE, err |-> NoErr]
    ELSE [path |-> UTF16Decode(Units(b, b.len)), found |-> TRUE, err |-> NoErr]

SaveResult_FoundOnCancel(r, b) ==
    [path |-> UTF16ToString(b), found |-> TRUE, err |-> NoErr]

\* the values returned once the OS call gave r and left b in buf
SaveResult(r, b) ==
    IF r = 0
    THEN [path |-> <<>>, found |-> FALSE, err |-> NoErr]
    ELSE [path |-> UTF16ToString(b), found |-> TRUE, err |-> NoErr]

\* up to and including the call of procGetSaveFileName
GetSaveFileName(t, parentHWND, title, filter, initialDir) ==
    /\ pc[t] = "idle"
    /\ proc' = [proc EXCEPT ![t] = "GetSaveFileName"]
    /\ args' = [args EXCEPT ![t] = [parentHWND |-> parentHWND, title |-> title,
                                    filter |-> filter, initialDir |-> initialDir]]
    /\ LET r == NewTagOFNA(parentHWND, title, filter, initialDir, SaveFlags, ptrSize)
       IN  IF r.err # NoErr
           THEN /\ result' = [result EXCEPT ![t] = [path |-> <<>>, found |-> FALSE, err |-> r.err]]
                /\ ofn' = [ofn EXCEPT ![t] = r.ofn]
                /\ pc' = [pc EXCEPT ![t] = "done"]
                /\ UNCHANGED <<heap, buf, osCalls>>
           ELSE LET a == Make(heap)
                IN
                /\ heap' = [heap EXCEPT ![a] = MakeUint16(1024)]
                /\ buf' = [buf EXCEPT ![t] = a]
                /\ ofn' = [ofn EXCEPT ![t] = SaveWireBuffer(r.ofn, a)]
                /\ osCalls' = [osCalls EXCEPT ![t] = @ + 1]
                /\ pc' = [pc EXCEPT ![t] = "inOS"]
                /\ UNCHANGED result
    /\ UNCHANGED <<ptrSize, ret, ff, raw>>

\* GetSaveFileNameW of comdlg32.dll returns
GetSaveFileNameW(t, r, w, fill) ==
    /\ pc[t] = "inOS"
    /\ proc[t] = "GetSaveFileName"
    /\ heap' = OsOutput(heap, ofn[t].val, w, fill)
    /\ ret' = [ret EXCEPT ![t] = r]
    /\ pc' = [pc EXCEPT ![t] = "back"]
    /\ UNCHANGED <<ptrSize, proc, args, ofn, buf, result, osCalls, ff, raw>>

GetSaveFileNameReturn(t) ==
    /\ pc[t] = "back"
    /\ proc[t] = "GetSaveFileName"
    /\ result' = [result EXCEPT ![t] = SaveResult(ret[t], heap[buf[t]])]
    /\ pc' = [pc EXCEPT ![t] = "done"]
    /\ UNCHANGED <<ptrSize, heap, proc, args, ofn, buf, ret, osCalls, ff, raw>>

\* the caller has taken the result; the locals of the invocation are gone
\* and its buffer is garbage
Release(t) ==
    /\ pc[t] = "done"
    /\ heap' = IF buf[t] = 0 THEN heap ELSE [heap EXCEPT ![buf[t]] = NoBuffer]
    /\ pc' = [pc EXCEPT ![t] = "idle"]
    /\ proc' = [proc EXCEPT ![t] = "none"]
    /\ args' = [args EXCEPT ![t] = NoArgs]
    /\ ofn' = [ofn EXCEPT ![t] = NilOFN]
    /\ buf' = [buf EXCEPT ![t] = 0]
    /\ ret' = [ret EXCEPT ![t] = 0]
    /\ result' = [result EXCEPT ![t] = NoResult]
    /\ osCalls' = [osCalls EXCEPT ![t] = 0]
    /\ UNCHANGED <<ptrSize, ff, raw>>

OpenCalled ==
    \E t \in Threads, h \in Hwnds, ti \in Texts, fl \in DialogFilters, d \in Texts :
        Serial(t) /\ GetOpenFileName(t, h, ti, fl, d)

SaveCalled ==
    \E t \in Threads, h \in Hwnds, ti \in Texts, fl \in DialogFilters, d \in Texts :
        Serial(t) /\ GetSaveFileName(t, h, ti, fl, d)

OpenOsReturns ==
    \E t \in Threads, r \in OsRets, w \in OsWrites, fill \in OsFills : GetOpenFileNameW(t, r, w, fill)

SaveOsReturns ==
    \E t \in Threads, r \in OsRets, w \in OsWrites, fill \in OsFills : GetSaveFileNameW(t, r, w, fill)

OpenReturns == \E t \in Threads : GetOpenFileNameReturn(t)

SaveReturns == \E t \in Threads : GetSaveFileNameReturn(t)

Released == \E t \in Threads : Release(t)

Next ==
    \/ OpenCalled
    \/ SaveCalled
    \/ OpenOsReturns
    \/ SaveOsReturns
    \/ OpenReturns
    \/ SaveReturns
    \/ Released

Spec == Init /\ [][Next]_vars

-----------------------------------------------------------------------------
(* Several threads calling the dialogs at the same time *)

\* the arguments of the concurrent callers: one set that encodes, one whose
\* second pattern has a space
ConcFilters == {
    <<[Name |-> <<97, 124, 97>>, Pattern |-> <<42>>], [Name |-> <<128512>>, Pattern |-> <<>>]>>,
    <<[Name |-> <<97>>, Pattern |-> <<42>>], [Name |-> <<97>>, Pattern |-> <<42, 32, 42>>]>> }

\* what the OS writes for the concurrent callers
ConcOsWrites == {<<>>, <<97, 55357, 56832, 0, 97>>}

ConcOpenCalled ==
    \E t \in Threads, fl \in ConcFilters :
        GetOpenFileName(t, 7, <<97, 128512>>, fl, <<97>>)

ConcSaveCalled ==
    \E t \in Threads, fl \in ConcFilters :
        GetSaveFileName(t, 7, <<97, 128512>>, fl, <<97>>)

ConcOpenOsReturns ==
    \E t \in Threads, r \in OsRets, w \in ConcOsWrites : GetOpenFileNameW(t, r, w, 0)

ConcSaveOsReturns ==
    \E t \in Threads, r \in OsRets, w \in ConcOsWrites : GetSaveFileNameW(t, r, w, 0)

NextConc ==
    \/ ConcOpenCalled
    \/ ConcSaveCalled
    \/ ConcOpenOsReturns
    \/ ConcSaveOsReturns
    \/ OpenReturns
    \/ SaveReturns
    \/ Released

SpecConc == Init /\ [][NextConc]_vars

-----------------------------------------------------------------------------
(* FileFilter.ToRaw called directly, on every filter list within the bounds *)

InitToRaw ==
    /\ InitDialog
    /\ ptrSize = 8
    /\ ff \in FileFilters
    /\ raw = NotRun

ToRawCalled ==
    /\ raw = NotRun
    /\ raw' = ToRaw(ff)
    /\ UNCHANGED <<ff, dialogVars>>

NextToRaw == ToRawCalled

SpecToRaw == InitToRaw /\ [][NextToRaw]_vars

-----------------------------------------------------------------------------
(* Properties of FileFilter.ToRaw, checked under SpecToRaw *)

\* the units of a buffer made by UTF16FromString, without the terminating
\* NUL that UTF16FromString itself appends (as a C string literal is written
\* without its implicit terminator)
Content(mem) == SubSeq(mem, 1, Len(mem) - 1)

NoSpaceInPatterns(list) == \A i \in 1..Len(list) : ~ContainsRune(list[i].Pattern, Space)

RECURSIVE PackedFrom(_, _)
\* name_i 0 pattern_i 0 ... name_n 0 pattern_n 0
PackedFrom(list, i) ==
    IF i > Len(list) THEN <<>>
    ELSE EncodeRunes(list[i].Name) \o <<0>> \o EncodeRunes(list[i].Pattern) \o <<0>>
         \o PackedFrom(list, i + 1)

\* the packed string of a filter list: the fields, then one more 0
Packed(list) == PackedFrom(list, 1) \o <<0>>

ZeroPositions(s) == {i \in 1..Len(s) : s[i] = 0}

RECURSIVE FieldEnds(_, _, _)
\* the positions directly after each name and each pattern of entries i..,
\* when entry i starts after position off
FieldEnds(list, i, off) ==
    IF i > Len(list) THEN {}
    ELSE LET afterName == off + Len(EncodeRunes(list[i].Name)) + 1
             afterPattern == afterName + Len(EncodeRunes(list[i].Pattern)) + 1
         IN  {afterName, afterPattern} \cup FieldEnds(list, i + 1, afterPattern)

\* C1: for every filter list whose patterns contain no space, ToRaw succeeds
\* and returns exactly name_1 0 pattern_1 0 ... name_n 0 pattern_n 0 followed
\* by one extra 0, in list order.
C1_ExactPackedLayout ==
    (raw # NotRun /\ NoSpaceInPatterns(ff)) =>
        /\ raw.err = NoErr
        /\ ~raw.ptr.nil
        /\ Content(raw.ptr.mem) = Packed(ff)

\* C2: for any filter list whose patterns are free of spaces, the buffer of
\* ToRaw holds exactly 2*len(list)+1 zero units: one directly after each
\* name, one directly after each pattern and one extra at the end.
C2_TerminatorCount ==
    (raw # NotRun /\ raw.err = NoErr) =>
        LET c == Content(raw.ptr.mem)
        IN  /\ Cardinality(ZeroPositions(c)) = 2 * Len(ff) + 1
            /\ ZeroPositions(c) = FieldEnds(ff, 1, 0) \cup {Len(c)}

\* C3: if the pattern of any entry, at any position, contains a space, ToRaw
\* returns a nil buffer and the pattern-validation error.
C3_SpacePatternFails ==
    (raw # NotRun /\ ~NoSpaceInPatterns(ff)) =>
        /\ raw.err = ErrPatternSpace
        /\ raw.ptr = NilPtr

C3_Witness ==
    /\ raw # NotRun
    /\ Len(ff) = 2
    /\ ~ContainsRune(ff[1].Pattern, Space)
    /\ ContainsRune(ff[2].Pattern, Space)
    /\ raw.err = ErrPatternSpace

\* C8: ToRaw of the empty filter list succeeds and returns a buffer that
\* starts with two 0 units and holds no name or pattern field.
C8_EmptyListDoubleTerminator ==
    (raw # NotRun /\ ff = <<>>) =>
        /\ raw.err = NoErr
        /\ ~raw.ptr.nil
        /\ Len(raw.ptr.mem) >= 2
        /\ raw.ptr.mem[1] = 0
        /\ raw.ptr.mem[2] = 0
        /\ \A i \in 1..Len(raw.ptr.mem) : raw.ptr.mem[i] = 0

C8_Witness ==
    /\ raw # NotRun
    /\ ff = <<>>
    /\ raw.err = NoErr

-----------------------------------------------------------------------------
(* Properties of GetOpenFileName and GetSaveFileName *)

\* a filter list ToRaw rejects: a pattern with a space, or a NUL in a field
FilterUnencodable(list) ==
    \E i \in 1..Len(list) :
        \/ ContainsRune(list[i].Pattern, Space)
        \/ ContainsRune(list[i].Name, 0)
        \/ ContainsRune(list[i].Pattern, 0)

Unencodable(a) ==
    \/ ContainsRune(a.title, 0)
    \/ FilterUnencodable(a.filter)
    \/ ContainsRune(a.initialDir, 0)

\* C4: when the title, the filter list or the initial directory cannot be
\* encoded, the invocation returns ("", false, non-nil error) and the OS
\* entry point is not invoked at any point of it.
C4_EncodingFailureNeverReachesOS ==
    \A t \in Threads :
        (pc[t] # "idle" /\ Unencodable(args[t])) =>
            /\ pc[t] = "done"
            /\ osCalls[t] = 0
            /\ buf[t] = 0
            /\ result[t].err \in {EINVAL, ErrPatternSpace}
            /\ result[t].path = <<>>
            /\ result[t].found = FALSE

C4_Witness ==
    \E t \in Threads :
        /\ pc[t] = "done"
        /\ ~ContainsRune(args[t].title, 0)
        /\ ~FilterUnencodable(args[t].filter)
        /\ ContainsRune(args[t].initialDir, 0)
        /\ result[t] = [path |-> <<>>, found |-> FALSE, err |-> EINVAL]
        /\ osCalls[t] = 0

\* C5: when the OS entry point returned zero the invocation returns
\* ("", false, nil) whatever is in the output buffer, and no invocation that
\* reached the OS returns a non-nil error.
C5_ZeroReturnIsNotFound ==
    \A t \in Threads :
        (pc[t] = "done" /\ osCalls[t] > 0) =>
            /\ result[t].err = NoErr
            /\ ret[t] = 0 => result[t] = [path |-> <<>>, found |-> FALSE, err |-> NoErr]

C5_Witness ==
    \E t \in Threads :
        /\ pc[t] = "done"
        /\ osCalls[t] > 0
        /\ ret[t] = 0
        /\ At(heap[buf[t]], 1) # 0
        /\ result[t] = [path |-> <<>>, found |-> FALSE, err |-> NoErr]

\* C6: when the OS entry point returned non-zero the invocation returns
\* found = true, a nil error and the text of the units of the 1024-unit
\* output buffer before its first 0 unit (all of them if there is none).
C6_PathIsPrefixBeforeTerminator ==
    \A t \in Threads :
        (pc[t] = "done" /\ osCalls[t] > 0 /\ ret[t] # 0) =>
            LET b == heap[buf[t]]
            IN  /\ result[t].found = TRUE
                /\ result[t].err = NoErr
                /\ b.len = 1024
                /\ \E k \in 0..b.len :
                    /\ k = b.len \/ At(b, k + 1) = 0
                    /\ \A i \in 1..k : At(b, i) # 0
                    /\ result[t].path = UTF16Decode(Units(b, k))
                    /\ (\A i \in 1..k : At(b, i) < 55296) => result[t].path = Units(b, k)

C6_Witness ==
    \E t \in Threads :
        /\ pc[t] = "done"
        /\ osCalls[t] > 0
        /\ ret[t] # 0
        /\ At(heap[buf[t]], 1) = 97
        /\ At(heap[buf[t]], 2) = 0
        /\ At(heap[buf[t]], 3) = 97
        /\ result[t] = [path |-> <<97>>, found |-> TRUE, err |-> NoErr]

\* C7: the flag word the OS receives is 0x1804 from GetOpenFileName and
\* 0x0804 (FileMustExist clear) from GetSaveFileName, whatever the arguments.
C7_FixedFlags ==
    \A t \in Threads :
        pc[t] = "inOS" =>
            /\ proc[t] = "GetOpenFileName" => ofn[t].val.Flags = 6148
            /\ proc[t] = "GetSaveFileName" =>
                /\ ofn[t].val.Flags = 2052
                /\ (ofn[t].val.Flags \div 4096) % 2 = 0

C7_Witness ==
    \E t \in Threads :
        /\ pc[t] = "inOS"
        /\ proc[t] = "GetSaveFileName"
        /\ ofn[t].val.Flags = 2052

\* C10: when the OS entry point is invoked the structure is complete: its
\* size, the owner handle, the ToRaw buffer of the filter list, the encoded
\* title and initial directory, and LpstrFile / NMaxFile naming a fresh
\* all-zero buffer of 1024 units.
C10_StructureCompleteAtOsCall ==
    \A t \in Threads :
        pc[t] = "inOS" =>
            LET o == ofn[t].val
            IN  /\ ~ofn[t].nil
                /\ o.LStructSize = (IF ptrSize = 8 THEN 152 ELSE 88)
                /\ o.HwndOwner = args[t].parentHWND
                /\ ~o.LpstrFilter.nil
                /\ o.LpstrFilter = ToRaw(args[t].filter).ptr
                /\ o.LpstrTitle = AddrOfFirst(EncodeRunes(args[t].title) \o <<0>>)
                /\ o.LpstrInitialDir = AddrOfFirst(EncodeRunes(args[t].initialDir) \o <<0>>)
                /\ o.LpstrFile # 0
                /\ o.LpstrFile = buf[t]
                /\ \A u \in Threads \ {t} : buf[u] # o.LpstrFile
                /\ heap[o.LpstrFile].len = 1024
                /\ \A i \in 1..1024 : At(heap[o.LpstrFile], i) = 0
                /\ o.NMaxFile = 1024

C10_Witness ==
    \E t \in Threads :
        /\ pc[t] = "inOS"
        /\ proc[t] = "GetOpenFileName"
        /\ Len(args[t].filter) = 2
        /\ ofn[t].val.NMaxFile = 1024
        /\ ofn[t].val.LpstrFile = buf[t]

-----------------------------------------------------------------------------
(* GetOpenFileName against GetSaveFileName, checked under SpecConc *)

\* the fields of a structure other than Flags; LpstrFile, which names the
\* invocation's own buffer, counts as nil or not nil
OtherFields(o) ==
    [o EXCEPT !.val.Flags = 0, !.val.LpstrFile = IF @ = 0 THEN 0 ELSE 1]

\* C9: on the same arguments GetOpenFileName and GetSaveFileName build
\* structures that agree in every field but Flags, and with the same OS
\* return code and output buffer they return the same triple.
C9_SaveEquivalentToOpen ==
    \A t, u \in Threads :
        (/\ proc[t] = "GetOpenFileName"
         /\ proc[u] = "GetSaveFileName"
         /\ args[t] = args[u]) =>
            /\ OtherFields(ofn[t]) = OtherFields(ofn[u])
            /\ osCalls[t] = osCalls[u]
            /\ (/\ pc[t] = "done"
                /\ pc[u] = "done"
                /\ osCalls[t] > 0 => (ret[t] = ret[u] /\ heap[buf[t]] = heap[buf[u]]))
               => result[t] = result[u]

C9_Witness ==
    \E t, u \in Threads :
        /\ proc[t] = "GetOpenFileName"
        /\ proc[u] = "GetSaveFileName"
        /\ args[t] = args[u]
        /\ pc[t] = "done"
        /\ pc[u] = "done"
        /\ ret[t] = 1
        /\ ret[u] = 1
        /\ heap[buf[t]] = heap[buf[u]]
        /\ result[u] = [path |-> <<97, 128512>>, found |-> TRUE, err |-> NoErr]

-----------------------------------------------------------------------------
(* Number of OS calls of one invocation, checked under Spec *)

\* C11: an invocation calls the OS entry point exactly once when all its
\* inputs encode and never otherwise; after a zero return it reports
\* ("", false, nil) without calling the OS again.
C11_AtMostOneOsCall ==
    \A t \in Threads :
        /\ osCalls[t] <= 1
        /\ pc[t] \in {"inOS", "back"} => osCalls[t] = 1
        /\ pc[t] = "done" => osCalls[t] = (IF Unencodable(args[t]) THEN 0 ELSE 1)
        /\ (pc[t] = "done" /\ osCalls[t] = 1 /\ ret[t] = 0) => result[t].found = FALSE

C11_Witness ==
    \E t \in Threads :
        /\ pc[t] = "done"
        /\ ~Unencodable(args[t])
        /\ ret[t] = 0
        /\ osCalls[t] = 1
        /\ result[t].found = FALSE

-----------------------------------------------------------------------------
(* Concurrent invocations, checked under SpecConc *)

\* the result of an invocation that reached the OS, from its own return
\* code and the present content of its own buffer
OwnResult(t) ==
    LET b == heap[buf[t]]
        \* beyond the head every unit is the fill unit
        zeros == {i \in 1..(Len(b.head) + 1) : i <= b.len /\ At(b, i) = 0}
        end == IF zeros = {} THEN b.len
               ELSE (CHOOSE i \in zeros : \A j \in zeros : i <= j) - 1
    IN  IF ret[t] = 0
        THEN [path |-> <<>>, found |-> FALSE, err |-> NoErr]
        ELSE [path |-> UTF16Decode(Units(b, end)), found |-> TRUE, err |-> NoErr]

\* C12: in every interleaving of concurrent invocations each one has its own
\* output buffer and structure: the OS call of one writes only into that
\* invocation's buffer, no step of another changes it, and the result is
\* decoded from it.
C12_NoSharingBetweenInvocations ==
    [][\A t \in Threads :
        /\ buf[t] # 0 =>
            /\ ofn[t].val.LpstrFile = buf[t]
            /\ \A u \in Threads \ {t} :
                /\ buf[u] # buf[t]
                /\ ofn[u].val.LpstrFile # buf[t]
        /\ (pc[t] = "inOS" /\ pc'[t] = "back") =>
            \A a \in Addrs \ {buf[t]} : heap'[a] = heap[a]
        /\ (pc[t] \in {"inOS", "back", "done"} /\ pc'[t] = pc[t]) =>
            /\ buf'[t] = buf[t]
            /\ buf[t] # 0 => heap'[buf[t]] = heap[buf[t]]
            /\ ofn'[t] = ofn[t]
        /\ (pc[t] = "done" /\ osCalls[t] > 0) => result[t] = OwnResult(t)
      ]_vars

C12_Witness ==
    \E t, u \in Threads :
        /\ t # u
        /\ pc[t] = "done"
        /\ pc[u] = "done"
        /\ buf[t] # 0
        /\ buf[u] # 0
        /\ buf[t] # buf[u]
        /\ result[t] = [path |-> <<>>, found |-> TRUE, err |-> NoErr]
        /\ result[u] = [path |-> <<97, 128512>>, found |-> TRUE, err |-> NoErr]

-----------------------------------------------------------------------------
(* Caller-supplied '|' characters, checked under SpecToRaw *)

\* the number of '|' characters of a string
PipeCount(str) == Cardinality({i \in 1..Len(str) : str[i] = Pipe})

RECURSIVE PipesOfList(_, _)
\* the number of '|' characters in the names and patterns of entries i..
PipesOfList(list, i) ==
    IF i > Len(list) THEN 0
    ELSE PipeCount(list[i].Name) + PipeCount(list[i].Pattern) + PipesOfList(list, i + 1)

\* a field as it appears in the buffer: encoded, each '|' unit a 0 unit
FieldWithTerminators(str) ==
    LET e == EncodeRunes(str)
    IN  [i \in 1..Len(e) |-> IF e[i] = Pipe THEN 0 ELSE e[i]]

RECURSIVE RewrittenFrom(_, _)
RewrittenFrom(list, i) ==
    IF i > Len(list) THEN <<>>
    ELSE FieldWithTerminators(list[i].Name) \o <<0>>
         \o FieldWithTerminators(list[i].Pattern) \o <<0>>
         \o RewrittenFrom(list, i + 1)

\* C13: ToRaw rewrites every '|' unit to 0, the caller's as well as its own
\* separators: the returned buffer holds no '|' unit, each field appears with
\* its '|' characters as terminators, and the k '|' characters of the names
\* and patterns add k terminators to the 2*len(list)+1 of the layout.
C13_EveryPipeBecomesTerminator ==
    (raw # NotRun /\ raw.err = NoErr) =>
        LET c == Content(raw.ptr.mem)
        IN  /\ \A i \in 1..Len(raw.ptr.mem) : raw.ptr.mem[i] # Pipe
            /\ c = RewrittenFrom(ff, 1) \o <<0>>
            /\ Cardinality(ZeroPositions(c)) = 2 * Len(ff) + 1 + PipesOfList(ff, 1)

C13_Witness ==
    /\ raw # NotRun
    /\ raw.err = NoErr
    /\ \E i \in 1..Len(ff) : PipeCount(ff[i].Name) > 0
    /\ \E i \in 1..Len(ff) : PipeCount(ff[i].Pattern) > 0
    /\ Cardinality(ZeroPositions(Content(raw.ptr.mem))) > 2 * Len(ff) + 1

-----------------------------------------------------------------------------
(* Round trip of the filter encoding, checked under SpecToRaw *)

\* a string that is non-empty and has no '|' and no NUL
CleanField(str) ==
    /\ str # <<>>
    /\ ~ContainsRune(str, Pipe)
    /\ ~ContainsRune(str, 0)

\* a filter list whose names and patterns are clean, its patterns without space
Clean(list) ==
    \A i \in 1..Len(list) :
        /\ CleanField(list[i].Name)
        /\ CleanField(list[i].Pattern)
        /\ ~ContainsRune(list[i].Pattern, Space)

\* the clean lists among FileFilters
CleanLists ==
    LET CleanFilters == {f \in Filters : Clean(<<f>>)}
    IN  UNION {[1..n -> CleanFilters] : n \in 0..MaxFilters}

RECURSIVE SplitFields(_, _, _)
\* the fields of a buffer from position i on, cur being the units of the
\* field in progress: split at 0 units, stop at the first empty field
SplitFields(mem, i, cur) ==
    IF i > Len(mem) THEN <<>>
    ELSE IF mem[i] = 0
         THEN IF cur = <<>> THEN <<>>
              ELSE <<cur>> \o SplitFields(mem, i + 1, <<>>)
         ELSE SplitFields(mem, i + 1, Append(cur, mem[i]))

\* the filter list read back from a buffer: fields paired two by two
Unpack(mem) ==
    LET fields == SplitFields(mem, 1, <<>>)
    IN  [k \in 1..(Len(fields) \div 2) |->
            [Name |-> UTF16Decode(fields[2 * k - 1]),
             Pattern |-> UTF16Decode(fields[2 * k])]]

\* C14 as stated: for every filter list whose names and patterns are
\* non-empty and hold no '|', no NUL and (patterns) no space, ToRaw succeeds,
\* the buffer splits into 2*len(list) fields that pair up to the original
\* list in order, and no other such list encodes to the same buffer.
C14_RoundTripOfAnyString ==
    (raw # NotRun /\ Clean(ff)) =>
        /\ raw.err = NoErr
        /\ ~raw.ptr.nil
        /\ Len(SplitFields(raw.ptr.mem, 1, <<>>)) = 2 * Len(ff)
        /\ Unpack(raw.ptr.mem) = ff
        /\ \A g \in CleanLists : ToRaw(g).ptr.mem = raw.ptr.mem => g = ff

\* a string all of whose bytes belong to well-formed UTF-8 sequences
ValidString(str) == \A i \in 1..Len(str) : ~IsInvalidByte(str[i])

ValidList(list) ==
    \A i \in 1..Len(list) : ValidString(list[i].Name) /\ ValidString(list[i].Pattern)

\* C14, amended: the round trip and the injectivity hold for the lists of
\* C14 whose names and patterns are, in addition, valid UTF-8.
C14_RoundTrip ==
    (raw # NotRun /\ Clean(ff) /\ ValidList(ff)) =>
        /\ raw.err = NoErr
        /\ ~raw.ptr.nil
        /\ Len(SplitFields(raw.ptr.mem, 1, <<>>)) = 2 * Len(ff)
        /\ Unpack(raw.ptr.mem) = ff
        /\ \A g \in CleanLists :
            (ValidList(g) /\ ToRaw(g).ptr.mem = raw.ptr.mem) => g = ff

C14_Witness ==
    /\ raw # NotRun
    /\ Clean(ff)
    /\ ValidList(ff)
    /\ Len(ff) = 2
    /\ ff[1] # ff[2]
    /\ \E i \in 1..2 : \E j \in 1..Len(ff[i].Name) : ff[i].Name[j] >= 65536
    /\ Unpack(raw.ptr.mem) = ff

-----------------------------------------------------------------------------
(* Order of validation in NewTagOFNA, checked under Spec *)

\* the error of the earliest invalid input in the order title, filter list,
\* initial directory; a filter list fails on a pattern with a space before
\* its encoding is attempted
FirstInvalidInputError(a) ==
    IF ContainsRune(a.title, 0) THEN EINVAL
    ELSE IF FilterUnencodable(a.filter)
         THEN IF NoSpaceInPatterns(a.filter) THEN EINVAL ELSE ErrPatternSpace
         ELSE EINVAL

\* C15: NewTagOFNA validates the title, then the filter list, then the
\* initial directory and stops at the first failure: with several invalid
\* inputs the error is that of the earliest one in this order, and the
\* structure is nil.
C15_FirstInvalidInputDecides ==
    \A t \in Threads :
        (pc[t] = "done" /\ Unencodable(args[t])) =>
            /\ result[t].err = FirstInvalidInputError(args[t])
            /\ ofn[t] = NilOFN
            /\ osCalls[t] = 0

C15_Witness ==
    \E t \in Threads :
        /\ pc[t] = "done"
        /\ ContainsRune(args[t].title, 0)
        /\ ~NoSpaceInPatterns(args[t].filter)
        /\ result[t].err = EINVAL
        /\ ofn[t] = NilOFN

=============================================================================
